---- MODULE Spec2Model ----
(***************************************************************************)
(* jemalloc-ctl: the typed layer over jemalloc's mallctl interface.        *)
(*                                                                         *)
(* The module models the private generic accessors of src/lib.rs           *)
(* (name_to_mib, get, get_mib, get_set, get_set_mib, cvt), the public      *)
(* wrappers built on them (epoch, Epoch, stats::allocated,                 *)
(* stats::Allocated, thread::allocatedp, thread::AllocatedP, ...,          *)
(* ThreadLocal) and the part of the allocator's control interface these    *)
(* wrappers talk to: the control tree, the epoch, the cached statistic,    *)
(* the per-thread counters.                                                *)
(*                                                                         *)
(* A control-point name (a NUL-terminated dotted C string) is the sequence *)
(* of its components; a value is the integer its bytes hold; a pointer is  *)
(* the address it holds.  One action is one whole call: the interface      *)
(* serialises its calls and the layer adds no locking of its own.          *)
(***************************************************************************)
EXTENDS Integers, Sequences, FiniteSets, TLC

(* ------------------------------ bounds -------------------------------- *)

NumThreads == 2
MaxAdvances == 3
MaxAllocs == 3
MaxInitEpoch == 1
MaxCap == 3
\* The thread whose read / allocate / advance / read scenario is followed.
Observer == CHOOSE t \in 1 .. NumThreads : \A u \in 1 .. NumThreads : t <= u

Threads == 1 .. NumThreads

(* --------------------------- program constants ------------------------ *)

\* errno values the interface returns as its status (0 is success).
EPERM == 1
ENOENT == 2
EINVAL == 22

\* size_of::<T>() of the value types the layer is instantiated with.
SIZE_U64 == 8
SIZE_USIZE == 8
SIZE_PTR == 8
SIZE_U16 == 2
SIZE_U128 == 16

\* The contents of a buffer obtained from mem::uninitialized before the
\* interface has stored into it.
UNINIT == -2
\* The value field of a result that carries no value (an Err, a panic).
NOVALUE == -1

VERSION == <<"version">>
EPOCH == <<"epoch">>
ALLOCATED == <<"stats", "allocated">>
ALLOCATEDP == <<"thread", "allocatedp">>
DEALLOCATEDP == <<"thread", "deallocatedp">>
\* A name the interface does not know.
NOSUCH == <<"no", "such", "control">>
\* A name that stops at an inner node of the control tree.
INNER == <<"stats">>

ValidNames == {VERSION, EPOCH, ALLOCATED, ALLOCATEDP, DEALLOCATEDP}
Names == ValidNames \cup {NOSUCH, INNER}
ValueSizes == {SIZE_U64, SIZE_U16, SIZE_U128}

\* The address of the static version string, and of thread t's counters.
VERSION_ADDR == 64
COUNTER_BASE == 128
AllocatedAddr(t) == COUNTER_BASE + 16 * t
DeallocatedAddr(t) == COUNTER_BASE + 16 * t + 8
OwnerOf(addr) == CHOOSE t \in Threads : addr \in {AllocatedAddr(t), DeallocatedAddr(t)}

VARIABLES
    debug,          \* the build has debug assertions (debug_assert_eq! is compiled in)
    epochv,         \* the interface's epoch
    live,           \* bytes currently allocated by the application
    cached,         \* the interface's cached stats.allocated, as of the last refresh
    tallocated,     \* [thread -> bytes ever allocated by the thread]
    tdeallocated,   \* [thread -> bytes ever deallocated by the thread]
    paths,          \* the resolved paths (Epoch, Allocated, ...) the process holds
    handles,        \* [thread -> the ThreadLocal handles (addresses) the thread holds]
    res,            \* the last step: who made it, what it was and what it returned
    nops,           \* allocations and frees performed
    epoch0,         \* history: the epoch at the start
    advLog,         \* history: the successful epoch writes, in order: <<[t, v], ...>>
    lastSet,        \* history: the last successful epoch write: [n, written, returned]
    scen,           \* history: the Observer's read / allocate / advance / read scenario
    pend,           \* [thread -> the call of the layer the thread is inside of]
    served,         \* history: the epoch writes in the order the interface applied them
    tl              \* history: the Observer's read / allocate / read / free / read scenario

vars == <<debug, epochv, live, cached, tallocated, tdeallocated, paths,
          handles, res, nops, epoch0, advLog, lastSet, scen, pend, served, tl>>

(* ----------------------- the interface's control tree ----------------- *)

\* The named children of the node reached by the index path mib.
Children(mib) ==
    IF mib = <<>> THEN <<"version", "epoch", "stats", "thread">>
    ELSE IF mib = <<2>> THEN <<"allocated">>
    ELSE IF mib = <<3>> THEN <<"allocatedp", "deallocatedp">>
    ELSE <<>>

\* The node mib exists in the tree.
RECURSIVE IsNode(_)
IsNode(mib) ==
    IF mib = <<>> THEN TRUE
    ELSE LET parent == SubSeq(mib, 1, Len(mib) - 1)
             i == mib[Len(mib)]
         IN  IsNode(parent) /\ i >= 0 /\ i < Len(Children(parent))

\* A terminal node carries a handler and has no children.
IsTerminal(mib) == mib # <<>> /\ IsNode(mib) /\ Children(mib) = <<>>

\* The index of elm among the children, or -1.
ChildIndex(kids, elm) ==
    IF \E j \in 1 .. Len(kids) : kids[j] = elm
    THEN (CHOOSE j \in 1 .. Len(kids) : kids[j] = elm) - 1
    ELSE -1

\* Entry i (1-based) of buf replaced by v.
PutAt(buf, i, v) == [k \in 1 .. Len(buf) |-> IF k = i THEN v ELSE buf[k]]

\* ctl_lookup: walk the tree along the name's components, at most the
\* caller's capacity deep, storing one index per level into buf.
RECURSIVE ctl_lookup(_, _, _, _)
ctl_lookup(name, buf, i, node) ==
    IF i > Len(buf) THEN [ret |-> 0, mib |-> buf, len |-> Len(buf)]
    ELSE LET j == ChildIndex(Children(node), name[i])
             next == Append(node, j)
             buf2 == PutAt(buf, i, j)
         IN  IF j < 0 THEN [ret |-> ENOENT, mib |-> buf, len |-> Len(buf)]
             ELSE IF IsTerminal(next)
                  THEN IF i < Len(name)
                       THEN [ret |-> ENOENT, mib |-> buf2, len |-> Len(buf)]
                       ELSE [ret |-> 0, mib |-> buf2, len |-> i]
                  ELSE IF i = Len(name)
                       THEN [ret |-> ENOENT, mib |-> buf2, len |-> Len(buf)]
                       ELSE ctl_lookup(name, buf2, i + 1, next)

\* mallctlnametomib(name, mibp, miblenp): the status, the buffer as the
\* interface leaves it and the length it reports.
mallctlnametomib(name, buf) == ctl_lookup(name, buf, 1, <<>>)

\* The full path of a name (the interface's own lookup, with room to spare).
FullLookup(name) == ctl_lookup(name, [k \in 1 .. Len(name) |-> 0], 1, <<>>)

(* ------------------------ the interface's handlers -------------------- *)

\* The low n bytes of v.
LowBytes(v, n) == IF v < 0 THEN v ELSE v % (256 ^ n)

\* READ(v, t): store v through oldp; a length other than sizeof(t) stores
\* what fits and fails with EINVAL.
CtlRead(v, size, buf, oldlen) ==
    IF oldlen # size
    THEN [ret |-> EINVAL,
          buf |-> IF oldlen < size THEN LowBytes(v, oldlen) ELSE v,
          len |-> oldlen]
    ELSE [ret |-> 0, buf |-> v, len |-> oldlen]

\* The value a read-only control point holds for the calling thread.
CtlValue(node, t) ==
    IF node = <<0>> THEN VERSION_ADDR
    ELSE IF node = <<2, 0>> THEN cached
    ELSE IF node = <<3, 0>> THEN AllocatedAddr(t)
    ELSE DeallocatedAddr(t)

CtlSize(node) ==
    IF node = <<0>> THEN SIZE_PTR
    ELSE IF node = <<1>> THEN SIZE_U64
    ELSE IF node = <<2, 0>> THEN SIZE_USIZE
    ELSE SIZE_PTR

\* The declared byte length of a valid name's control point.
DeclaredSize(name) == CtlSize(FullLookup(name).mib)

\* A mutation of the epoch handler: the epoch is read out before the write
\* is applied.
epoch_ctl_read_first(buf, oldlen, hasNew, newlen) ==
    IF hasNew /\ newlen # SIZE_U64
    THEN [ret |-> EINVAL, buf |-> buf, len |-> oldlen, epoch |-> epochv, cached |-> cached]
    ELSE LET r == CtlRead(epochv, SIZE_U64, buf, oldlen)
         IN  [ret |-> r.ret, buf |-> r.buf, len |-> r.len,
              epoch |-> IF hasNew THEN epochv + 1 ELSE epochv,
              cached |-> IF hasNew THEN live ELSE cached]

\* A mutation of the epoch handler: the length of the new value is not
\* checked before the write is applied.
epoch_ctl_unchecked(buf, oldlen, hasNew, newlen) ==
    LET e == IF hasNew THEN epochv + 1 ELSE epochv
        c == IF hasNew THEN live ELSE cached
        r == CtlRead(e, SIZE_U64, buf, oldlen)
    IN  [ret |-> r.ret, buf |-> r.buf, len |-> r.len, epoch |-> e, cached |-> c]

\* The epoch handler: a write (of any value) refreshes the cached
\* statistics and increments the epoch; the current epoch is then read out.
\* newp and oldp are the same buffer: the new value is consumed before the
\* epoch is stored over it.
epoch_ctl(buf, oldlen, hasNew, newlen) ==
    IF hasNew /\ newlen # SIZE_U64
    THEN [ret |-> EINVAL, buf |-> buf, len |-> oldlen, epoch |-> epochv, cached |-> cached]
    ELSE LET e == IF hasNew THEN epochv + 1 ELSE epochv
             c == IF hasNew THEN live ELSE cached
             r == CtlRead(e, SIZE_U64, buf, oldlen)
         IN  [ret |-> r.ret, buf |-> r.buf, len |-> r.len, epoch |-> e, cached |-> c]

\* A read-only handler refuses a write with EPERM.
readonly_ctl(node, t, buf, oldlen, hasNew, newlen) ==
    IF hasNew \/ newlen # 0
    THEN [ret |-> EPERM, buf |-> buf, len |-> oldlen, epoch |-> epochv, cached |-> cached]
    ELSE LET r == CtlRead(CtlValue(node, t), CtlSize(node), buf, oldlen)
         IN  [ret |-> r.ret, buf |-> r.buf, len |-> r.len, epoch |-> epochv, cached |-> cached]

\* The handler of a terminal node, called on thread t.
node_ctl(node, t, buf, oldlen, hasNew, newlen) ==
    IF node = <<1>> THEN epoch_ctl(buf, oldlen, hasNew, newlen)
    ELSE readonly_ctl(node, t, buf, oldlen, hasNew, newlen)

NoEntry(buf, oldlen) ==
    [ret |-> ENOENT, buf |-> buf, len |-> oldlen, epoch |-> epochv, cached |-> cached]

\* mallctl(name, oldp, oldlenp, newp, newlen) on thread t, with newp = oldp
\* when hasNew.
mallctl(t, name, buf, oldlen, hasNew, newlen) ==
    LET l == FullLookup(name)
    IN  IF l.ret # 0 \/ ~IsTerminal(SubSeq(l.mib, 1, l.len)) THEN NoEntry(buf, oldlen)
        ELSE node_ctl(SubSeq(l.mib, 1, l.len), t, buf, oldlen, hasNew, newlen)

\* mallctlbymib(mib, miblen, oldp, oldlenp, newp, newlen) on thread t: the
\* node is found by index; a path that names no terminal node is ENOENT.
mallctlbymib(t, mib, buf, oldlen, hasNew, newlen) ==
    IF ~IsTerminal(mib) THEN NoEntry(buf, oldlen)
    ELSE node_ctl(mib, t, buf, oldlen, hasNew, newlen)

(* --------------------------- src/lib.rs ------------------------------- *)

\* A mutation of cvt: every status is taken for success.
cvt_ignore_status(ret) == [ok |-> TRUE, code |-> 0]

\* cvt: status 0 is Ok(()), any other status is Err(from_raw_os_error(ret)).
cvt(ret) ==
    IF ret = 0 THEN [ok |-> TRUE, code |-> 0] ELSE [ok |-> FALSE, code |-> ret]

\* io::Error::from_raw_os_error(code).kind().
ErrorKind(code) ==
    IF code = ENOENT THEN "NotFound"
    ELSE IF code = EPERM THEN "PermissionDenied"
    ELSE IF code = EINVAL THEN "InvalidInput"
    ELSE "Other"

\* name_to_mib(name, &mut mib) with mib = [0; cap]: the outcome, the array
\* as the caller finds it on Ok, and the length the interface reported.
name_to_mib(name, cap) ==
    LET r == mallctlnametomib(name, [k \in 1 .. cap |-> 0])
        c == cvt(r.ret)
    IN  IF ~c.ok THEN [kind |-> "Err", code |-> c.code, mib |-> <<>>, len |-> r.len]
        ELSE IF debug /\ cap # r.len
             THEN [kind |-> "Panic", code |-> 0, mib |-> <<>>, len |-> r.len]
             ELSE [kind |-> "Ok", code |-> 0, mib |-> r.mib, len |-> r.len]

\* What a typed accessor returns from the interface's answer r for a value
\* type of `size` bytes.
Typed(r, size) ==
    LET c == cvt(r.ret)
    IN  IF ~c.ok
        THEN [kind |-> "Err", code |-> c.code, value |-> NOVALUE,
              epoch |-> r.epoch, cached |-> r.cached]
        ELSE IF debug /\ r.len # size
             THEN [kind |-> "Panic", code |-> 0, value |-> NOVALUE,
                   epoch |-> r.epoch, cached |-> r.cached]
             ELSE [kind |-> "Ok", code |-> 0, value |-> r.buf,
                   epoch |-> r.epoch, cached |-> r.cached]

\* A mutation of get_mib: the path's length is passed one short.
get_mib_short(t, mib, size) ==
    Typed(mallctlbymib(t, SubSeq(mib, 1, Len(mib) - 1), UNINIT, size, FALSE, 0), size)

\* get_mib::<T>(mib) on thread t, size = size_of::<T>().
get_mib(t, mib, size) == Typed(mallctlbymib(t, mib, UNINIT, size, FALSE, 0), size)

\* get::<T>(name) on thread t.
get(t, name, size) == Typed(mallctl(t, name, UNINIT, size, FALSE, 0), size)

\* The bytes at addr, up to the NUL, are valid UTF-8 (jemalloc's version
\* string is ASCII).
Utf8At(addr) == addr = VERSION_ADDR

\* CStr::from_ptr(ptr).to_str().map_err(InvalidData) on the pointer a get
\* returned: the borrowed string is the one at that address.
to_str(r) ==
    IF r.kind # "Ok" \/ Utf8At(r.value) THEN r
    ELSE [r EXCEPT !.kind = "Err", !.value = NOVALUE]

\* get_str(name) on thread t.
get_str(t, name) == to_str(Typed(mallctl(t, name, UNINIT, SIZE_PTR, FALSE, 0), SIZE_PTR))

\* A mutation of get_set_mib: the caller's value comes back, as if the
\* interface had been given no output buffer.
get_set_mib_echo(t, mib, value, size) ==
    LET r == Typed(mallctlbymib(t, mib, value, size, TRUE, size), size)
    IN  [r EXCEPT !.value = IF r.kind = "Ok" THEN value ELSE NOVALUE]

\* get_set_mib::<T>(mib, value) on thread t: value is both the new value and
\* the buffer the old one is stored into.
get_set_mib(t, mib, value, size) ==
    Typed(mallctlbymib(t, mib, value, size, TRUE, size), size)

\* A mutation of get_set: the caller's value comes back.
get_set_echo(t, name, value, size) ==
    LET r == Typed(mallctl(t, name, value, size, TRUE, size), size)
    IN  [r EXCEPT !.value = IF r.kind = "Ok" THEN value ELSE NOVALUE]

\* get_set::<T>(name, value) on thread t.
get_set(t, name, value, size) ==
    Typed(mallctl(t, name, value, size, TRUE, size), size)

\* A mutation of epoch(): the epoch is read and not written.
epoch_read_only(t) == get(t, EPOCH, SIZE_U64)

\* pub fn epoch() -> io::Result<u64>
epoch(t) == get_set(t, EPOCH, 1, SIZE_U64)

\* Epoch::advance(&self)
Epoch_advance(t, mib) == get_set_mib(t, mib, 1, SIZE_U64)

\* stats::allocated()
allocated(t) == get(t, ALLOCATED, SIZE_USIZE)

\* stats::Allocated::get(&self)
Allocated_get(t, mib) == get_mib(t, mib, SIZE_USIZE)

\* thread::allocatedp() and thread::deallocatedp(): the pointer the
\* ThreadLocal wraps.
allocatedp(t) == get(t, ALLOCATEDP, SIZE_PTR)
deallocatedp(t) == get(t, DEALLOCATEDP, SIZE_PTR)

\* The handle types with their control point and the capacity of the array
\* their constructor resolves into.
PathTypes == {"Version", "Epoch", "Allocated", "AllocatedP", "DeallocatedP"}

TypeName(ty) ==
    IF ty = "Version" THEN VERSION
    ELSE IF ty = "Epoch" THEN EPOCH
    ELSE IF ty = "Allocated" THEN ALLOCATED
    ELSE IF ty = "AllocatedP" THEN ALLOCATEDP
    ELSE DEALLOCATEDP

TypeCap(ty) == IF ty \in {"Version", "Epoch"} THEN 1 ELSE 2

TypeSize(ty) ==
    IF ty = "Epoch" THEN SIZE_U64
    ELSE IF ty = "Allocated" THEN SIZE_USIZE
    ELSE SIZE_PTR

\* Version::new, Epoch::new, Allocated::new, AllocatedP::new, DeallocatedP::new
new(ty) == name_to_mib(TypeName(ty), TypeCap(ty))

\* The memory a ThreadLocal points into: the per-thread counters.
Mem(addr) ==
    IF addr = AllocatedAddr(OwnerOf(addr)) THEN tallocated[OwnerOf(addr)]
    ELSE tdeallocated[OwnerOf(addr)]

\* A mutation of ThreadLocal::get: the statistic the interface caches is
\* read, not the counter.
ThreadLocal_get_cached(addr) == cached

\* ThreadLocal::get(&self): *self.0
ThreadLocal_get(addr) == Mem(addr)

\* The field a ThreadLocal<T> wraps, and a mutation of it.
ThreadLocal_field_usize == "usize"
ThreadLocal_field == "const_ptr"
PathField == "usize_array"

\* Rust's auto traits: a raw pointer is neither Send nor Sync, a usize or an
\* array of usize is both.
IsSend(field) == field \notin {"const_ptr", "mut_ptr"}
IsSync(field) == field \notin {"const_ptr", "mut_ptr"}

(* ------------------------------ the state ----------------------------- *)

NoRes ==
    [t |-> 0, op |-> "none", name |-> <<>>, mib |-> <<>>, arg |-> 0, new |-> NOVALUE,
     kind |-> "None", code |-> 0, value |-> NOVALUE, len |-> 0, pre |-> 0]

NoScen == [stage |-> 0, a |-> 0, n |-> 0, b |-> 0, over |-> FALSE, freed |-> FALSE]

\* No call in flight: the thread is outside the layer.  Of a call in flight,
\* calls, writes and r are the calls it has made into the interface, the
\* epoch writes they applied and the interface's last answer, pre is the
\* epoch the interface held when it took the call.
NoCall ==
    [stage |-> "idle", op |-> "none", name |-> <<>>, mib |-> <<>>, size |-> 0,
     value |-> NOVALUE, pre |-> 0, calls |-> 0, writes |-> 0,
     r |-> [ret |-> 0, buf |-> NOVALUE, len |-> 0]]

NoReads == [stage |-> 0, h |-> 0, a |-> 0, b |-> 0, c |-> 0]

Init ==
    /\ debug \in BOOLEAN
    /\ epochv \in 0 .. MaxInitEpoch
    /\ epoch0 = epochv
    /\ live = 0
    /\ cached = 0
    /\ tallocated = [t \in Threads |-> 0]
    /\ tdeallocated = [t \in Threads |-> 0]
    /\ paths = {}
    /\ handles = [t \in Threads |-> {}]
    /\ res = NoRes
    /\ nops = 0
    /\ advLog = <<>>
    /\ lastSet = [n |-> 0, written |-> 0, returned |-> 0]
    /\ scen = NoScen
    /\ pend = [t \in Threads |-> NoCall]
    /\ served = <<>>
    /\ tl = NoReads

\* The record of a typed call and of what it returned.
Called(t, op, name, mib, size, newv, r) ==
    [t |-> t, op |-> op, name |-> name, mib |-> mib, arg |-> size, new |-> newv,
     kind |-> r.kind, code |-> r.code, value |-> r.value, len |-> size, pre |-> epochv]

\* The record of a resolution and of what it returned.
Resolved(t, op, name, cap, r) ==
    [t |-> t, op |-> op, name |-> name, mib |-> r.mib, arg |-> cap, new |-> NOVALUE,
     kind |-> r.kind, code |-> r.code, value |-> NOVALUE, len |-> r.len, pre |-> epochv]

\* The record of a step that is no call into the layer.
Did(t, op, arg) == [NoRes EXCEPT !.t = t, !.op = op, !.arg = arg]

Heap == <<live, tallocated, tdeallocated, nops>>
Iface == <<epochv, cached, live, tallocated, tdeallocated>>
\* What the specifications of whole calls leave alone or only log into.
History == <<epoch0, advLog, lastSet, scen, pend, served, tl>>

\* Bytes thread t holds allocated.
held(t) == tallocated[t] - tdeallocated[t]

(* ------------------------------- actions ------------------------------ *)

\* name_to_mib(name, &mut [0; cap]) by thread t.
NameToMib(t, name, cap) ==
    /\ res' = Resolved(t, "name_to_mib", name, cap, name_to_mib(name, cap))
    /\ UNCHANGED <<debug, Iface, nops, paths, handles>>

\* Version::new(), Epoch::new(), Allocated::new(), AllocatedP::new(),
\* DeallocatedP::new() by thread t: the handle exists when the call is Ok.
\* A handle is Copy, Send and Sync: once made, any thread may be given it.
New(t, ty) ==
    LET r == new(ty)
    IN  /\ res' = Resolved(t, "new", TypeName(ty), TypeCap(ty), r)
        /\ paths' = IF r.kind = "Ok" THEN paths \cup {[ty |-> ty, mib |-> r.mib]} ELSE paths
        /\ UNCHANGED <<debug, Iface, nops, handles>>

\* get::<T>(name) by thread t with size_of::<T>() = size.
Get(t, name, size) ==
    /\ res' = Called(t, "get", name, <<>>, size, NOVALUE, get(t, name, size))
    /\ UNCHANGED <<debug, Iface, nops, paths, handles>>

\* get_mib::<T>(&self.0) by thread t through a handle p.
GetMib(t, p, size) ==
    /\ p \in paths
    /\ res' = Called(t, "get_mib", TypeName(p.ty), p.mib, size, NOVALUE,
                     get_mib(t, p.mib, size))
    /\ UNCHANGED <<debug, Iface, nops, paths, handles>>

\* epoch() by thread t.
EpochByName(t) ==
    LET r == epoch(t)
    IN  /\ epochv - epoch0 < MaxAdvances
        /\ res' = Called(t, "get_set", EPOCH, <<>>, SIZE_U64, 1, r)
        /\ epochv' = r.epoch
        /\ cached' = r.cached
        /\ UNCHANGED <<debug, Heap, paths, handles>>

\* Epoch::advance(&self) by thread t through an Epoch p.
EpochAdvance(t, p) ==
    LET r == Epoch_advance(t, p.mib)
    IN  /\ epochv - epoch0 < MaxAdvances
        /\ p \in paths /\ p.ty = "Epoch"
        /\ res' = Called(t, "get_set_mib", EPOCH, p.mib, SIZE_U64, 1, r)
        /\ epochv' = r.epoch
        /\ cached' = r.cached
        /\ UNCHANGED <<debug, Heap, paths, handles>>

\* get_set::<T>(name, value) by thread t with size_of::<T>() = size.
GetSet(t, name, value, size) ==
    LET r == get_set(t, name, value, size)
    IN  /\ epochv - epoch0 < MaxAdvances
        /\ res' = Called(t, "get_set", name, <<>>, size, value, r)
        /\ epochv' = r.epoch
        /\ cached' = r.cached
        /\ UNCHANGED <<debug, Heap, paths, handles>>

\* Thread t allocates one unit of memory (a large allocation, counted in
\* the statistics at once) and keeps it.
Alloc(t) ==
    /\ nops < MaxAllocs
    /\ nops' = nops + 1
    /\ live' = live + 1
    /\ tallocated' = [tallocated EXCEPT ![t] = @ + 1]
    /\ res' = Did(t, "alloc", 1)
    /\ UNCHANGED <<debug, epochv, cached, tdeallocated, paths, handles>>

\* Thread t frees one unit of the memory it holds.
Free(t) ==
    /\ nops < MaxAllocs
    /\ held(t) >= 1
    /\ nops' = nops + 1
    /\ live' = live - 1
    /\ tdeallocated' = [tdeallocated EXCEPT ![t] = @ + 1]
    /\ res' = Did(t, "free", 1)
    /\ UNCHANGED <<debug, epochv, cached, tallocated, paths, handles>>

\* thread::allocatedp() / thread::deallocatedp() by thread t:
\* get(NAME).map(ThreadLocal).
PointerByName(t, name) ==
    LET r == IF name = ALLOCATEDP THEN allocatedp(t) ELSE deallocatedp(t)
    IN  /\ name \in {ALLOCATEDP, DEALLOCATEDP}
        /\ res' = Called(t, "get", name, <<>>, SIZE_PTR, NOVALUE, r)
        /\ handles' = IF r.kind = "Ok" THEN [handles EXCEPT ![t] = @ \cup {r.value}]
                      ELSE handles
        /\ UNCHANGED <<debug, Iface, nops, paths>>

\* AllocatedP::get(&self) / DeallocatedP::get(&self) by thread t:
\* get_mib(&self.0).map(ThreadLocal).
PointerByMib(t, p) ==
    LET r == get_mib(t, p.mib, SIZE_PTR)
    IN  /\ p \in paths /\ p.ty \in {"AllocatedP", "DeallocatedP"}
        /\ res' = Called(t, "get_mib", TypeName(p.ty), p.mib, SIZE_PTR, NOVALUE, r)
        /\ handles' = IF r.kind = "Ok" THEN [handles EXCEPT ![t] = @ \cup {r.value}]
                      ELSE handles
        /\ UNCHANGED <<debug, Iface, nops, paths>>

\* ThreadLocal::get(&self) by thread t on a handle it holds.
ThreadLocalGet(t, h) ==
    /\ h \in handles[t]
    /\ res' = [Did(t, "ThreadLocal_get", h) EXCEPT !.kind = "Ok", !.value = ThreadLocal_get(h)]
    /\ UNCHANGED <<debug, Iface, nops, paths, handles>>

\* What thread t can hand to another thread: a resolved path, or a
\* ThreadLocal handle it holds.
Items(t) ==
    {[kind |-> "path", ty |-> p.ty, addr |-> 0] : p \in paths}
        \cup {[kind |-> "handle", ty |-> "ThreadLocal", addr |-> h] : h \in handles[t]}

FieldOf(item) == IF item.kind = "path" THEN PathField ELSE ThreadLocal_field

\* Thread t hands a value to thread u: moved or copied into a spawned
\* closure or a channel (the compiler admits it for a Send type), or
\* borrowed by a scoped thread (admitted for a Sync type).
Send(t, u, item) ==
    /\ t # u /\ item \in Items(t)
    /\ IsSend(FieldOf(item)) \/ IsSync(FieldOf(item))
    /\ handles' = IF item.kind = "handle"
                  THEN [handles EXCEPT ![u] = @ \cup {item.addr}]
                  ELSE handles
    /\ res' = [Did(t, "send", u) EXCEPT !.value = item.addr]
    /\ UNCHANGED <<debug, Iface, nops, paths>>

(* --------------------------- history variables ------------------------ *)

\* The step was a successful write of the epoch.
EpochWritten == res'.op \in {"get_set", "get_set_mib"} /\ res'.name = EPOCH /\ res'.kind = "Ok"

\* The log of the epoch's successful writes.
LogAdvances ==
    /\ advLog' = IF EpochWritten THEN Append(advLog, [t |-> res'.t, v |-> res'.value])
                 ELSE advLog
    /\ lastSet' = IF EpochWritten
                  THEN [n |-> lastSet.n + 1, written |-> res'.new, returned |-> res'.value]
                  ELSE lastSet
    /\ UNCHANGED <<epoch0, scen, pend, served, tl>>

\* The scenario of stats.rs:25-29 and 53-57 as the Observer runs it: read
\* stats.allocated as a, allocate n bytes and keep them, advance the epoch,
\* read stats.allocated as b.  over: a overstated the bytes allocated when
\* it was read.  freed: another thread freed memory since a was read.
ScenStep ==
    LET mine == res'.t = Observer
        read == res'.op \in {"get", "get_mib"} /\ res'.name = ALLOCATED /\ res'.kind = "Ok"
    IN  IF res'.op = "free"
        THEN IF mine THEN NoScen
             ELSE IF scen.stage \in {1, 2, 3} THEN [scen EXCEPT !.freed = TRUE] ELSE scen
        ELSE IF ~mine THEN scen
        ELSE IF read
             THEN IF scen.stage = 3 THEN [scen EXCEPT !.stage = 4, !.b = res'.value]
                  ELSE [stage |-> 1, a |-> res'.value, n |-> 0, b |-> 0,
                        over |-> res'.value > live, freed |-> FALSE]
        ELSE IF res'.op = "alloc"
             THEN IF scen.stage \in {1, 2}
                  THEN [scen EXCEPT !.stage = 2, !.n = scen.n + res'.arg]
                  ELSE NoScen
        ELSE IF EpochWritten
             THEN IF scen.stage = 2 THEN [scen EXCEPT !.stage = 3] ELSE NoScen
        ELSE NoScen

LogScenario ==
    /\ scen' = ScenStep
    /\ UNCHANGED <<epoch0, advLog, lastSet, pend, served, tl>>

\* The scenario of thread.rs:31-40 and 109-118 as the Observer runs it
\* through one handle h: read a, allocate and keep, read b, free, read c.
\* Other threads' steps leave it where it is.
ReadsStep ==
    LET mine == res'.t = Observer
        read == res'.op = "ThreadLocal_get"
    IN  IF ~mine THEN tl
        ELSE IF read
             THEN IF tl.stage = 2 /\ res'.arg = tl.h
                  THEN [tl EXCEPT !.stage = 3, !.b = res'.value]
                  ELSE IF tl.stage = 4 /\ res'.arg = tl.h
                       THEN [tl EXCEPT !.stage = 5, !.c = res'.value]
                       ELSE [stage |-> 1, h |-> res'.arg, a |-> res'.value, b |-> 0, c |-> 0]
        ELSE IF res'.op = "alloc"
             THEN IF tl.stage = 1 THEN [tl EXCEPT !.stage = 2] ELSE NoReads
        ELSE IF res'.op = "free"
             THEN IF tl.stage = 3 THEN [tl EXCEPT !.stage = 4] ELSE NoReads
        ELSE tl

LogReads ==
    /\ tl' = ReadsStep
    /\ UNCHANGED <<epoch0, advLog, lastSet, scen, pend, served>>

(* ------------------------ calls, step by step ------------------------- *)

\* Where a call stands after its one call into the interface has come
\* back, a mutation first: the call is made again when it failed.
after_call_retry(ret) == IF ret # 0 THEN "entered" ELSE "served"
\* cvt(...)?: whatever the status, the function goes on to return.
after_call(ret) == "served"

\* The call into the interface that the call c of thread t makes.
InterfaceCall(t, c) ==
    IF c.op = "name_to_mib"
    THEN LET r == mallctlnametomib(c.name, [k \in 1 .. c.size |-> 0])
         IN  [ret |-> r.ret, buf |-> r.mib, len |-> r.len, epoch |-> epochv, cached |-> cached]
    ELSE IF c.op \in {"get", "get_str"} THEN mallctl(t, c.name, UNINIT, c.size, FALSE, 0)
    ELSE IF c.op = "get_mib" THEN mallctlbymib(t, c.mib, UNINIT, c.size, FALSE, 0)
    ELSE IF c.op = "get_set" THEN mallctl(t, c.name, c.value, c.size, TRUE, c.size)
    ELSE mallctlbymib(t, c.mib, c.value, c.size, TRUE, c.size)

\* What the call c returns once the interface has answered c.r: cvt(..)?,
\* the debug assertion, Ok(..).
Outcome(c) ==
    IF c.op = "name_to_mib"
    THEN LET k == cvt(c.r.ret)
         IN  IF ~k.ok THEN [kind |-> "Err", code |-> k.code, value |-> NOVALUE, mib |-> <<>>]
             ELSE IF debug /\ c.size # c.r.len
                  THEN [kind |-> "Panic", code |-> 0, value |-> NOVALUE, mib |-> <<>>]
                  ELSE [kind |-> "Ok", code |-> 0, value |-> NOVALUE, mib |-> c.r.buf]
    ELSE LET o == IF c.op = "get_str" THEN to_str(Typed(c.r, c.size)) ELSE Typed(c.r, c.size)
         IN  [kind |-> o.kind, code |-> o.code, value |-> o.value, mib |-> c.mib]

\* Thread t enters a function of the layer: its arguments and locals are
\* the thread's own (value is the local the interface reads the new value
\* from and stores the old one into).
Enter(t, op, name, mib, value, size) ==
    /\ pend[t].stage = "idle"
    /\ pend' = [pend EXCEPT ![t] = [NoCall EXCEPT !.stage = "entered", !.op = op,
                    !.name = name, !.mib = mib, !.value = value, !.size = size]]
    /\ res' = Did(t, "enter", size)
    /\ UNCHANGED <<debug, Iface, nops, paths, handles, epoch0, advLog, lastSet,
                   scen, served, tl>>

\* Epoch::new() and a name_to_mib of a name the interface does not know.
EnterResolve(t, name) ==
    /\ name \in {EPOCH, NOSUCH}
    /\ Enter(t, "name_to_mib", name, <<>>, NOVALUE, Len(name))

\* get::<T>(name): the epoch, and thread::allocatedp().
EnterGet(t, name, size) ==
    /\ name \in {EPOCH, ALLOCATEDP}
    /\ Enter(t, "get", name, <<>>, UNINIT, size)

\* version(): get_str(VERSION).
EnterGetStr(t) == Enter(t, "get_str", VERSION, <<>>, UNINIT, SIZE_PTR)

\* get_mib::<T>(&self.0) through a resolved path.
EnterGetMib(t, p, size) ==
    /\ p \in paths
    /\ Enter(t, "get_mib", TypeName(p.ty), p.mib, UNINIT, size)

\* get_set::<T>(name, value); epoch() is get_set(EPOCH, 1).
EnterGetSet(t, name, value, size) ==
    /\ name \in {EPOCH, ALLOCATED}
    /\ Enter(t, "get_set", name, <<>>, value, size)

\* get_set_mib::<T>(&self.0, value); Epoch::advance is get_set_mib(.., 1).
EnterGetSetMib(t, p, value, size) ==
    /\ p \in paths
    /\ Enter(t, "get_set_mib", TypeName(p.ty), p.mib, value, size)

\* The call into the interface: the interface serves one call at a time,
\* so the call takes effect in one step, whatever other calls are in flight.
Serve(t) ==
    LET c == pend[t]
        r == InterfaceCall(t, c)
        wrote == r.epoch # epochv
    IN  /\ c.stage = "entered"
        /\ wrote => epochv - epoch0 < MaxAdvances
        /\ epochv' = r.epoch
        /\ cached' = r.cached
        /\ pend' = [pend EXCEPT ![t] = [c EXCEPT !.stage = after_call(r.ret),
                        !.pre = epochv, !.calls = @ + 1,
                        !.writes = @ + (IF wrote THEN 1 ELSE 0),
                        !.r = [ret |-> r.ret, buf |-> r.buf, len |-> r.len,
                               epoch |-> r.epoch, cached |-> r.cached]]]
        /\ served' = IF wrote
                     THEN Append(served, [pre |-> epochv, new |-> c.value,
                                          post |-> r.epoch, out |-> r.buf])
                     ELSE served
        /\ res' = Did(t, "call", c.size)
        /\ UNCHANGED <<debug, Heap, paths, handles, epoch0, advLog, lastSet, scen, tl>>

\* The function returns to its caller (or unwinds from the debug
\* assertion); a path Epoch::new resolved is kept.
Return(t) ==
    LET c == pend[t]
        o == Outcome(c)
    IN  /\ c.stage = "served"
        /\ res' = [t |-> t, op |-> c.op, name |-> c.name, mib |-> o.mib, arg |-> c.size,
                   new |-> c.value, kind |-> o.kind, code |-> o.code, value |-> o.value,
                   len |-> c.r.len, pre |-> c.pre]
        /\ pend' = [pend EXCEPT ![t] = NoCall]
        /\ paths' = IF c.op = "name_to_mib" /\ o.kind = "Ok"
                    THEN paths \cup {[ty |-> "Epoch", mib |-> o.mib]}
                    ELSE paths
        /\ UNCHANGED <<debug, Iface, nops, handles, epoch0, advLog, lastSet, scen, served, tl>>

(* --------------------------- specifications --------------------------- *)

\* Resolution and typed reads, by name and by path.
NextAccess ==
    \E t \in Threads :
        \/ \E name \in Names, cap \in 1 .. MaxCap : NameToMib(t, name, cap) /\ UNCHANGED History
        \/ \E ty \in PathTypes : New(t, ty) /\ UNCHANGED History
        \/ \E name \in Names, size \in ValueSizes : Get(t, name, size) /\ UNCHANGED History
        \/ \E p \in paths, size \in ValueSizes : GetMib(t, p, size) /\ UNCHANGED History

SpecAccess == Init /\ [][NextAccess]_vars

\* The epoch: advances by name and by path, and reads of it.
NextEpoch ==
    \E t \in Threads :
        \/ New(t, "Epoch") /\ LogAdvances
        \/ EpochByName(t) /\ LogAdvances
        \/ \E p \in paths : EpochAdvance(t, p) /\ LogAdvances
        \/ \E v \in {1, 7}, size \in ValueSizes : GetSet(t, EPOCH, v, size) /\ LogAdvances
        \/ \E size \in ValueSizes : Get(t, EPOCH, size) /\ LogAdvances

SpecEpoch == Init /\ [][NextEpoch]_vars

\* The cached statistic: allocations, frees, advances and reads.
NextStats ==
    \E t \in Threads :
        \/ Alloc(t) /\ LogScenario
        \/ Free(t) /\ LogScenario
        \/ EpochByName(t) /\ LogScenario
        \/ Get(t, ALLOCATED, SIZE_USIZE) /\ LogScenario
        \/ New(t, "Allocated") /\ LogScenario
        \/ \E p \in paths : GetMib(t, p, SIZE_USIZE) /\ LogScenario

SpecStats == Init /\ [][NextStats]_vars

\* The thread-local pointers.
NextThread ==
    \E t \in Threads :
        \/ New(t, "AllocatedP") /\ UNCHANGED History
        \/ \E name \in {ALLOCATEDP, DEALLOCATEDP} : PointerByName(t, name) /\ UNCHANGED History
        \/ \E p \in paths : PointerByMib(t, p) /\ UNCHANGED History
        \/ \E h \in handles[t] : ThreadLocalGet(t, h) /\ UNCHANGED History
        \/ \E u \in Threads, item \in Items(t) : Send(t, u, item) /\ UNCHANGED History

SpecThread == Init /\ [][NextThread]_vars

\* No call is in flight.
Quiet == \A u \in Threads : pend[u].stage = "idle"

\* Every kind of call, step by step, one call at a time.
NextCalls ==
    \E t \in Threads :
        \/ \E name \in {EPOCH, NOSUCH} : Quiet /\ EnterResolve(t, name)
        \/ \E name \in {EPOCH, ALLOCATEDP}, size \in {SIZE_U64, SIZE_U16} :
              Quiet /\ EnterGet(t, name, size)
        \/ Quiet /\ EnterGetStr(t)
        \/ \E p \in paths, size \in {SIZE_U64, SIZE_U16} : Quiet /\ EnterGetMib(t, p, size)
        \/ \E name \in {EPOCH, ALLOCATED}, value \in {1, 7}, size \in {SIZE_U64, SIZE_U16} :
              Quiet /\ EnterGetSet(t, name, value, size)
        \/ \E p \in paths, size \in {SIZE_U64, SIZE_U16} : Quiet /\ EnterGetSetMib(t, p, 1, size)
        \/ Serve(t)
        \/ Return(t)

SpecCalls == Init /\ [][NextCalls]_vars

\* Writes of the epoch by name and by path, those of several threads in
\* flight at once.
NextRace ==
    \E t \in Threads :
        \/ New(t, "Epoch") /\ UNCHANGED History
        \/ EnterGetSet(t, EPOCH, 7, SIZE_U64)
        \/ \E p \in paths : EnterGetSetMib(t, p, 1, SIZE_U64)
        \/ Serve(t)
        \/ Return(t)

SpecRace == Init /\ [][NextRace]_vars

\* The per-thread counters: every thread allocates and frees, the Observer
\* obtains the pointers to its counters and reads through them.
NextCounters ==
    \E t \in Threads :
        \/ Alloc(t) /\ LogReads
        \/ Free(t) /\ LogReads
        \/ \E name \in {ALLOCATEDP, DEALLOCATEDP} :
              t = Observer /\ PointerByName(t, name) /\ LogReads
        \/ \E h \in handles[t] : t = Observer /\ ThreadLocalGet(t, h) /\ LogReads

SpecCounters == Init /\ [][NextCounters]_vars

(* ------------------------------- claims ------------------------------- *)

\* C1: of two consecutive successful epoch advances (epoch() or
\* Epoch::advance, by any threads, no other epoch write between them)
\* returning a and then b, b = a + 1.
C1_ConsecutiveAdvances ==
    \A i \in 1 .. Len(advLog) - 1 : advLog[i + 1].v = advLog[i].v + 1

\* An advance by path has followed an advance by name.
C1_Witness ==
    /\ Len(advLog) >= 2
    /\ res.op = "get_set_mib" /\ res.kind = "Ok"
    /\ res.value = advLog[Len(advLog)].v

\* C2: a get<T> (by name or by path) on a control point whose declared byte
\* length is not size_of(T) fails with the interface's size-mismatch status
\* (EINVAL); it never returns a value.
C2_SizeMismatch ==
    (res.op \in {"get", "get_mib"} /\ res.name \in ValidNames
        /\ res.arg # DeclaredSize(res.name))
    => (res.kind = "Err" /\ res.code = EINVAL /\ res.value = NOVALUE)

\* stats.allocated has been read by path as a 16-bit value.
C2_Witness ==
    /\ res.op = "get_mib" /\ res.name = ALLOCATED /\ res.arg = SIZE_U16
    /\ res.kind = "Err"

\* C3 as stated: a successful set returns the value the control point held
\* immediately before the call.
C3_ReturnsPrevious ==
    (res.op \in {"get_set", "get_set_mib"} /\ res.kind = "Ok") => res.value = res.pre

\* C3 as amended: a successful set of the epoch returns the epoch after this
\* call's increment, the value held before the call plus 1, whatever value
\* is written.
C3_ReturnsAdvanced ==
    (res.op \in {"get_set", "get_set_mib"} /\ res.kind = "Ok")
    => (res.name = EPOCH /\ res.value = res.pre + 1 /\ epochv = res.value)

\* The epoch held at least 1 and 7 was written to it.
C3_Witness ==
    /\ res.op = "get_set" /\ res.kind = "Ok" /\ res.new = 7 /\ res.pre >= 1

\* C4 as stated: a get after a successful set(p, v), no write between them,
\* returns v.
C4_ReadsWritten ==
    (res.op = "get" /\ res.name = EPOCH /\ res.kind = "Ok" /\ lastSet.n > 0)
    => res.value = lastSet.written

\* C4 as amended: a get of the epoch after a successful set of it, no write
\* between them, returns the value that set returned (the advanced epoch),
\* not the value written.
C4_ReadsReturned ==
    (res.op = "get" /\ res.name = EPOCH /\ res.kind = "Ok" /\ lastSet.n > 0)
    => (res.value = lastSet.returned /\ res.value = epochv)

\* The epoch has been read after two writes of it.
C4_Witness ==
    /\ res.op = "get" /\ res.name = EPOCH /\ res.kind = "Ok" /\ lastSet.n >= 2

\* C5: when the interface resolves the name (status 0) and reports a length
\* other than the capacity of the caller's array, the resolution does not
\* return Ok.
C5_LengthMismatchSurfaced ==
    (res.op \in {"name_to_mib", "new"} /\ res.kind # "Err" /\ res.len # res.arg)
    => res.kind # "Ok"

\* C6: in every state, for every thread and every handle type, the read by
\* name and the read through the freshly resolved path return the same
\* result.
C6_PathEqualsName ==
    \A t \in Threads, ty \in PathTypes :
        LET p == new(ty)
            byName == IF ty = "Allocated" THEN allocated(t)
                      ELSE get(t, TypeName(ty), TypeSize(ty))
            byPath == IF ty = "Allocated" THEN Allocated_get(t, p.mib)
                      ELSE get_mib(t, p.mib, TypeSize(ty))
        IN  /\ p.kind = "Ok"
            /\ byPath.kind = "Ok"
            /\ byPath.kind = byName.kind
            /\ byPath.code = byName.code
            /\ byPath.value = byName.value

\* Allocated::get has returned a refreshed, nonzero statistic, the one
\* stats::allocated() returns in the same state.
C6_Witness ==
    /\ res.op = "get_mib" /\ res.name = ALLOCATED /\ res.kind = "Ok" /\ res.value > 0
    /\ allocated(res.t).value = res.value

\* C7: a resolution of a name the interface does not know fails with
\* NotFound, yields no path and changes nothing; every constructor's
\* resolution (of a valid name) succeeds with the name's path, before and
\* after.
C7_UnknownNameStep ==
    /\ (res'.op \in {"name_to_mib", "new"} /\ res'.name \notin ValidNames)
        => /\ res'.kind = "Err" /\ ErrorKind(res'.code) = "NotFound"
           /\ res'.mib = <<>>
           /\ paths' = paths /\ handles' = handles
           /\ Iface' = Iface /\ debug' = debug
    /\ res'.op = "new"
        => /\ res'.kind = "Ok"
           /\ res'.mib = FullLookup(res'.name).mib
           /\ [ty |-> CHOOSE ty \in PathTypes : TypeName(ty) = res'.name,
               mib |-> res'.mib] \in paths'

C7_UnknownName == [][C7_UnknownNameStep]_vars

\* A constructor has succeeded right after a resolution of the unknown name
\* failed.
C7_Witness ==
    /\ res.op = "name_to_mib" /\ res.name = NOSUCH /\ res.kind = "Err"
    /\ paths # {}

\* C8: every ThreadLocal handle a thread holds was obtained by a call made
\* on that thread, and every read through a handle is made by the thread
\* that obtained it.
C8_Confined ==
    /\ \A t \in Threads : \A h \in handles[t] : OwnerOf(h) = t
    /\ res.op = "ThreadLocal_get" => OwnerOf(res.arg) = res.t

\* Both threads hold handles, one thread has handed a path to the other and
\* a handle has been read.
C8_Witness ==
    /\ \A t \in Threads : handles[t] # {}
    /\ paths # {}
    /\ res.op = "ThreadLocal_get" /\ res.t = 2

\* C9 as stated: the scenario gives b > a, and b >= a + n when no other
\* thread freed memory.
C9_Increases ==
    scen.stage = 4
    => (scen.b > scen.a /\ (~scen.freed => scen.b >= scen.a + scen.n))

\* C9 as amended: the scenario gives b >= a + n, hence b > a, provided a did
\* not overstate the bytes allocated when it was read and no other thread
\* freed memory before b was read.
C9_IncreasesFromFresh ==
    (scen.stage = 4 /\ ~scen.over /\ ~scen.freed)
    => (scen.n >= 1 /\ scen.b >= scen.a + scen.n /\ scen.b > scen.a)

\* The scenario has completed from a fresh nonzero a, no thread freeing.
C9_Witness ==
    /\ scen.stage = 4 /\ ~scen.over /\ ~scen.freed /\ scen.a > 0

\* C10: under any interleaving of the threads' advances the returned values
\* are pairwise distinct, each thread's own results increase, and the epoch
\* is the number of advances higher than at the start.
C10_ConcurrentAdvances ==
    /\ \A i, j \in 1 .. Len(advLog) : i # j => advLog[i].v # advLog[j].v
    /\ \A i, j \in 1 .. Len(advLog) :
          (i < j /\ advLog[i].t = advLog[j].t) => advLog[i].v < advLog[j].v
    /\ epochv = epoch0 + Len(advLog)

\* Two threads' advances have interleaved.
C10_Witness ==
    /\ Len(advLog) >= 3
    /\ advLog[1].t # advLog[2].t
    /\ advLog[3].t = advLog[1].t

\* A call in flight that has written the epoch and is about to return Ok.
WroteEpoch(c) ==
    c.stage = "served" /\ c.op \in {"get_set", "get_set_mib"} /\ c.writes > 0
        /\ Outcome(c).kind = "Ok"

\* C11 as stated: of the racing writes, in the order the interface applied
\* them, each caller's returned value is the value the control point held
\* immediately before that caller's write: the initial value for the first,
\* the value the writer before it wrote for every later one.
C11_ReturnsHeldBefore ==
    \A i \in 1 .. Len(served) :
        /\ served[i].out = served[i].pre
        /\ served[i].pre = IF i = 1 THEN epoch0 ELSE served[i - 1].new

\* C11 as amended: the racing writes of the epoch are linearizable in the
\* order the interface applied them: each caller's returned value is the
\* value the epoch held immediately before that caller's write plus 1, the
\* initial value plus 1 for the first and the value returned to the writer
\* before it plus 1 for every later one; the written value is not stored.
\* Every write in flight and every returned write is one entry of that
\* order, no two calls the same entry.
C11_Linearizable ==
    /\ \A i \in 1 .. Len(served) :
          /\ served[i].pre = IF i = 1 THEN epoch0 ELSE served[i - 1].out
          /\ served[i].out = served[i].pre + 1
          /\ served[i].post = served[i].out
    /\ epochv = epoch0 + Len(served)
    /\ \A t \in Threads :
          WroteEpoch(pend[t])
          => \E i \in 1 .. Len(served) :
                served[i].pre = pend[t].pre /\ served[i].out = Outcome(pend[t]).value
    /\ \A t, u \in Threads :
          (t # u /\ WroteEpoch(pend[t]) /\ WroteEpoch(pend[u])) => pend[t].pre # pend[u].pre
    /\ (res.op \in {"get_set", "get_set_mib"} /\ res.kind = "Ok")
       => /\ res.value = res.pre + 1
          /\ \E i \in 1 .. Len(served) :
                served[i].pre = res.pre /\ served[i].out = res.value

\* Of two racing writes, one by path and one by name, the one the interface
\* applied second has returned first; the first is still in flight.
C11_Witness ==
    \E t \in Threads :
        /\ WroteEpoch(pend[t]) /\ pend[t].op = "get_set_mib"
        /\ res.t # t /\ res.op = "get_set" /\ res.kind = "Ok"
        /\ res.pre = pend[t].pre + 1

\* C12: every call of the layer (name_to_mib, get, get_mib, get_str,
\* get_set, get_set_mib and the wrappers built on them) makes exactly one
\* call into the interface and returns that call's outcome: an error with
\* the call's status when the status is not 0, without calling again, so
\* that a set or an advance applies its write at most once.
C12_OneCallStep ==
    \A t \in Threads :
        /\ pend'[t].calls <= 1 /\ pend'[t].writes <= pend'[t].calls
        /\ (pend[t].stage = "entered" /\ pend'[t] # pend[t])
            => /\ pend[t].calls = 0 /\ pend'[t].calls = 1
               /\ pend'[t].stage = "served"
               /\ epochv' = epochv + pend'[t].writes
        /\ (pend[t].stage # "idle" /\ pend'[t].stage = "idle")
            => /\ pend[t].stage = "served" /\ pend[t].calls = 1
               /\ res'.t = t /\ res'.op = pend[t].op
               /\ res'.kind = "Err" <=> pend[t].r.ret # 0
               /\ res'.kind = "Ok" <=> pend[t].r.ret = 0
               /\ res'.kind = "Err" => res'.code = pend[t].r.ret
               /\ (res'.kind = "Ok" /\ res'.op # "name_to_mib") => res'.value = pend[t].r.buf
               /\ (res'.kind = "Ok" /\ res'.op = "name_to_mib") => res'.mib = pend[t].r.buf
               /\ epochv = pend[t].pre + pend[t].writes
               /\ pend[t].r.ret # 0 => epochv = pend[t].pre
               /\ Iface' = Iface

C12_OneCall == [][C12_OneCallStep]_vars

\* An advance by path has failed and returned its error, after an earlier
\* write of the epoch had been applied.
C12_Witness ==
    /\ res.op = "get_set_mib" /\ res.kind = "Err" /\ res.code = EINVAL
    /\ Len(served) >= 1 /\ epochv = epoch0 + Len(served)
    /\ Quiet

\* The call c is a set whose value type is not of the control point's
\* declared byte length.
MisSizedSet(c) ==
    /\ c.op \in {"get_set", "get_set_mib"}
    /\ c.name \in ValidNames /\ c.size # DeclaredSize(c.name)

\* C13 as stated: a mis-sized set is blocked entirely: the interface call
\* leaves the interface's state and the caller's buffer as they were, and
\* the set returns the size-mismatch error (EINVAL).
C13_BlockedStep ==
    \A t \in Threads :
        /\ (MisSizedSet(pend[t]) /\ pend[t].stage = "entered" /\ pend'[t] # pend[t])
            => /\ Iface' = Iface
               /\ pend'[t].writes = 0
               /\ pend'[t].r.buf = pend[t].value
               /\ pend'[t].r.ret = EINVAL
        /\ (MisSizedSet(pend[t]) /\ pend[t].stage = "served" /\ pend'[t].stage = "idle")
            => /\ res'.kind = "Err" /\ res'.code = EINVAL /\ res'.value = NOVALUE
               /\ Iface' = Iface /\ epochv = pend[t].pre

C13_Blocked == [][C13_BlockedStep]_vars

\* The status of a blocked set: the size mismatch on the epoch, the one
\* writable control point; the refusal of the write on a read-only one,
\* whatever the size.
BlockedStatus(name) == IF name = EPOCH THEN EINVAL ELSE EPERM

\* C13 as amended: a mis-sized set is blocked entirely: the interface call
\* leaves the interface's state and the caller's buffer as they were, and
\* the set returns an error: EINVAL on the epoch, EPERM (the control point
\* is read-only) on every other control point.
C13_BlockedByStatusStep ==
    \A t \in Threads :
        /\ (MisSizedSet(pend[t]) /\ pend[t].stage = "entered" /\ pend'[t] # pend[t])
            => /\ Iface' = Iface
               /\ pend'[t].writes = 0
               /\ pend'[t].r.buf = pend[t].value
               /\ pend'[t].r.ret = BlockedStatus(pend[t].name)
        /\ (MisSizedSet(pend[t]) /\ pend[t].stage = "served" /\ pend'[t].stage = "idle")
            => /\ res'.kind = "Err" /\ res'.code = BlockedStatus(pend[t].name)
               /\ res'.value = NOVALUE
               /\ Iface' = Iface /\ epochv = pend[t].pre

C13_BlockedByStatus == [][C13_BlockedByStatusStep]_vars

\* A 16-bit set of the epoch has returned its error after an earlier write
\* of the epoch had been applied.
C13_Witness ==
    /\ res.op = "get_set" /\ res.name = EPOCH /\ res.arg = SIZE_U16 /\ res.new = 7
    /\ res.kind = "Err"
    /\ Len(served) >= 1 /\ epochv = res.pre

\* C14: a read through a thread-local handle gives the owning thread's
\* counter as it is now, no interface call and no epoch advance in between:
\* of reads a, b, c through one handle, taken before an allocation, after
\* it and after freeing it, the allocated-bytes handle gives a < b and
\* b = c, the deallocated-bytes handle a = b and b < c.
C14_ReadsCurrent ==
    /\ res.op = "ThreadLocal_get"
        => /\ res.value = IF res.arg = AllocatedAddr(res.t)
                          THEN tallocated[res.t] ELSE tdeallocated[res.t]
           /\ epochv = epoch0 /\ cached = 0
    /\ tl.stage >= 3
        => IF tl.h = AllocatedAddr(Observer) THEN tl.a < tl.b ELSE tl.a = tl.b
    /\ tl.stage = 5
        => IF tl.h = AllocatedAddr(Observer) THEN tl.b = tl.c ELSE tl.b < tl.c

\* The three reads have been made through the deallocated-bytes handle
\* while another thread allocated memory.
C14_Witness ==
    /\ tl.stage = 5 /\ tl.h = DeallocatedAddr(Observer)
    /\ \E u \in Threads : u # Observer /\ tallocated[u] > 0
    /\ res.op = "ThreadLocal_get" /\ res.t = Observer /\ res.value = tl.c

====
